---- MODULE Spec2Model ----
(***************************************************************************)
(* Model of monitor.py: the report-listing monitor.                        *)
(*                                                                         *)
(* Two parts:                                                              *)
(*   - the extraction engine (extract_items and its helpers) as operators  *)
(*     over an abstract document tree, exercised by SpecExtract;           *)
(*   - main() as a state machine over the persisted state file, one action *)
(*     per step of the run, exercised by Spec.                             *)
(*                                                                         *)
(* Text is a sequence of words.  Chinese literals of the source are        *)
(* written in pinyin: "xiazai" = download marker, "baogao" = report,       *)
(* "jidu" = quarterly, "bannniandu" = semi-annual, "niandu" = annual,      *)
(* "weishibiebiaoti" = the unrecognized-title sentinel.                    *)
(***************************************************************************)
EXTENDS Integers, Sequences, FiniteSets, TLC

(***************************************************************************)
(* Bounds of the model.                                                    *)
(***************************************************************************)
MaxRows == 2
MaxTopN == 2
MaxRuns == 3

(***************************************************************************)
(* Program constants.                                                      *)
(***************************************************************************)
FindAllLimit == 8
FetchAttempts == 3
DefaultTopN == 20

BASE_URL == [host |-> "www.hanscnc.com", path |-> <<"investorsreport", "list.html">>]

(***************************************************************************)
(* Words and text.                                                         *)
(***************************************************************************)
WS == {" ", "\n"}
DateWords == {"2024-10-30", "2023-04-28"}

\* "marker in word" for the words the sample documents use
WordHas(w, marker) ==
    CASE w = "xiazai"          -> marker = "xiazai"
      [] w = "baogao"          -> marker = "baogao"
      [] w = "jidubaogao"      -> marker \in {"jidu", "baogao"}
      [] w = "niandubaogao"    -> marker \in {"niandu", "baogao"}
      [] w = "bannniandu"      -> marker \in {"bannniandu", "niandu"}
      [] OTHER                 -> FALSE

Contains(t, marker) == \E i \in 1..Len(t) : WordHas(t[i], marker)

RECURSIVE Strip(_)
Strip(s) ==
    IF s = <<>> THEN s
    ELSE IF Head(s) \in WS THEN Strip(Tail(s))
    ELSE IF s[Len(s)] \in WS THEN Strip(SubSeq(s, 1, Len(s) - 1))
    ELSE s

RECURSIVE Collapse(_)
Collapse(s) ==
    IF s = <<>> THEN s
    ELSE IF Head(s) \in WS
         THEN IF Len(s) > 1 /\ s[2] \in WS
              THEN Collapse(Tail(s))
              ELSE <<" ">> \o Collapse(Tail(s))
         ELSE <<Head(s)>> \o Collapse(Tail(s))

\* re.sub(r"\s+", " ", (s or "").strip())
norm_text(s) == Collapse(Strip(s))

\* re.search(r"(\d{4}-\d{2}-\d{2})", t): the first date of t, "" for no match
RECURSIVE DateSearch(_)
DateSearch(t) ==
    IF t = <<>> THEN ""
    ELSE IF Head(t) \in DateWords THEN Head(t)
    ELSE DateSearch(Tail(t))

(***************************************************************************)
(* urljoin(base_url, href) on structured URLs.                             *)
(***************************************************************************)
NoHref == [kind |-> "none"]

urljoin(base, href) ==
    CASE href.kind = "abs"  -> [host |-> href.host, path |-> href.path]
      [] href.kind = "root" -> [host |-> base.host, path |-> href.path]
      [] href.kind = "rel"  ->
            [host |-> base.host,
             path |-> SubSeq(base.path, 1, Len(base.path) - 1) \o href.path]

(***************************************************************************)
(* The parsed document.  A document is a sequence of rows (containers such *)
(* as <li> or <div>, themselves not h3/h4/a/p/span) under one body; a row  *)
(* has text of its own and a sequence of elements; an element is one of    *)
(* h3, h4, a, p, span, with text, an href attribute (anchors) and nested   *)
(* anchors (kids).                                                         *)
(***************************************************************************)
A(text, href) == [name |-> "a", own |-> text, href |-> href, kids |-> <<>>]
El(name, text, kids) == [name |-> name, own |-> text, href |-> NoHref, kids |-> kids]

HrefA     == [kind |-> "root", path |-> <<"r", "a.pdf">>]
HrefAAbs  == [kind |-> "abs", host |-> "www.hanscnc.com", path |-> <<"r", "a.pdf">>]
HrefB     == [kind |-> "rel", path |-> <<"b.pdf">>]
HrefX     == [kind |-> "root", path |-> <<"x.pdf">>]

\* <li><h3>..jidubaogao</h3><span>2024-10-30</span><a href="/r/a.pdf"> xiazai\n</a></li>
RowA == [own |-> <<>>,
         elems |-> << El("h3", <<"jidubaogao">>, <<>>),
                      El("span", <<"2024-10-30">>, <<>>),
                      A(<<" ", "xiazai", "\n">>, HrefA) >>]
\* <td>2023-04-28 <a href="https://www.hanscnc.com/r/a.pdf">xiazai</a></td>
RowA2 == [own |-> <<"2023-04-28">>, elems |-> << A(<<"xiazai">>, HrefAAbs) >>]
\* <li><p>bannniandu</p><a href="b.pdf">dianji xiazai</a></li>
RowB == [own |-> <<>>,
         elems |-> << El("p", <<"bannniandu">>, <<>>),
                      A(<<"dianji", " ", " ", "xiazai">>, HrefB) >>]
\* <li><a>xiazai</a></li>: a download anchor without href
RowNoHref == [own |-> <<>>, elems |-> << A(<<"xiazai">>, NoHref) >>]
\* <div><h3>niandubaogao<a href="/x.pdf">chakan</a></h3></div>
RowC == [own |-> <<>>,
         elems |-> << El("h3", <<"niandubaogao">>, << A(<<"chakan">>, HrefX) >>) >>]
\* <div><h4>baogao 2023-04-28</h4></div>: a report heading without anchor
RowH == [own |-> <<>>, elems |-> << El("h4", <<"baogao", " ", "2023-04-28">>, <<>>) >>]
\* <div><a href="b.pdf">niandubaogao</a></div>
RowL == [own |-> <<>>, elems |-> << A(<<"niandubaogao">>, HrefB) >>]
\* <div><h3>baogao <a href="/x.pdf">xiazai</a></h3></div>
RowN == [own |-> <<>>,
         elems |-> << El("h3", <<"baogao", " ">>, << A(<<"xiazai">>, HrefX) >>) >>]
\* <div><h3><a href="/x.pdf">niandubaogao</a></h3></div>: a heading that links
RowHA == [own |-> <<>>,
          elems |-> << El("h3", <<>>, << A(<<"niandubaogao">>, HrefX) >>) >>]
\* <div><p>gonggao</p></div>
RowP == [own |-> <<>>, elems |-> << El("p", <<"gonggao">>, <<>>) >>]

RowShapes == {RowA, RowA2, RowB, RowNoHref, RowC, RowH, RowHA, RowL, RowN, RowP}

SeqsUpTo(S, n) == UNION {[1..k -> S] : k \in 0..n}

Docs == SeqsUpTo(RowShapes, MaxRows)

\* A position names a node: element e of row r (k = 0) or its k-th nested anchor.
Pos(r, e, k) == [r |-> r, e |-> e, k |-> k]

NodeAt(doc, p) ==
    IF p.k = 0 THEN doc[p.r].elems[p.e] ELSE doc[p.r].elems[p.e].kids[p.k]

RECURSIVE Flatten(_)
Flatten(ss) == IF ss = <<>> THEN <<>> ELSE Head(ss) \o Flatten(Tail(ss))

\* the nodes under element e of row r, in document order, the element excluded
KidPos(doc, r, e) == [k \in 1..Len(doc[r].elems[e].kids) |-> Pos(r, e, k)]

RowPos(doc, r) ==
    Flatten([e \in 1..Len(doc[r].elems) |-> <<Pos(r, e, 0)>> \o KidPos(doc, r, e)])

DocPos(doc) == Flatten([r \in 1..Len(doc) |-> RowPos(doc, r)])

\* A scope is a node, a row or the body; Under(doc, sc) is its descendants.
NodeScope(p) == [kind |-> "node", pos |-> p]
RowScope(r)  == [kind |-> "row", r |-> r]
BodyScope    == [kind |-> "body"]

Under(doc, sc) ==
    CASE sc.kind = "node" -> IF sc.pos.k = 0 THEN KidPos(doc, sc.pos.r, sc.pos.e) ELSE <<>>
      [] sc.kind = "row"  -> RowPos(doc, sc.r)
      [] sc.kind = "body" -> DocPos(doc)

parent(p) == IF p.k = 0 THEN RowScope(p.r) ELSE NodeScope(Pos(p.r, p.e, 0))

ScopeParent(sc) ==
    CASE sc.kind = "node" -> parent(sc.pos)
      [] sc.kind = "row"  -> BodyScope
      [] sc.kind = "body" -> BodyScope

RECURSIVE JoinWith(_, _)
JoinWith(ts, sep) ==
    IF ts = <<>> THEN <<>>
    ELSE IF Len(ts) = 1 THEN Head(ts)
    ELSE Head(ts) \o sep \o JoinWith(Tail(ts), sep)

NonEmpty(ts) == SelectSeq(ts, LAMBDA t : t # <<>>)

\* node.get_text(sep): the text strings under the node, joined by sep
NodeStrings(n) == NonEmpty(<<n.own>> \o [k \in 1..Len(n.kids) |-> n.kids[k].own])

RowStrings(row) ==
    NonEmpty(<<row.own>>) \o Flatten([e \in 1..Len(row.elems) |-> NodeStrings(row.elems[e])])

ScopeStrings(doc, sc) ==
    CASE sc.kind = "node" -> NodeStrings(NodeAt(doc, sc.pos))
      [] sc.kind = "row"  -> RowStrings(doc[sc.r])
      [] sc.kind = "body" -> Flatten([r \in 1..Len(doc) |-> RowStrings(doc[r])])

get_text(doc, sc, sep) == JoinWith(ScopeStrings(doc, sc), sep)

Take(s, n) == SubSeq(s, 1, IF Len(s) < n THEN Len(s) ELSE n)

\* scope.find_all(names, limit=limit); limit = 0 means no limit
find_all(doc, sc, names, limit) ==
    LET hits == SelectSeq(Under(doc, sc), LAMBDA p : NodeAt(doc, p).name \in names)
    IN  IF limit = 0 THEN hits ELSE Take(hits, limit)

\* near_text(node): [node, node.parent] + list(node.parents)[:2]
near_text(doc, p) ==
    LET sc   == NodeScope(p)
        up1  == parent(p)
        up2  == ScopeParent(up1)
        ps   == <<sc, up1, up1, up2>>
    IN  JoinWith([i \in 1..4 |-> norm_text(get_text(doc, ps[i], <<" ">>))], <<" ">>)

(***************************************************************************)
(* extract_items.                                                          *)
(***************************************************************************)
TextAt(doc, p) == norm_text(get_text(doc, NodeScope(p), <<>>))

UnrecognizedTitle == <<"weishibiebiaoti">>
TitleMarkers == {"baogao", "jidu", "bannniandu", "niandu"}

Item(title, date, href) == [title |-> title, date |-> date, href |-> href]

\* anchors = [a for a in soup.find_all("a") if "xiazai" in norm_text(a.get_text())]
anchors(doc) ==
    SelectSeq(find_all(doc, BodyScope, {"a"}, 0),
              LAMBDA p : Contains(TextAt(doc, p), "xiazai"))

\* [a, a.parent, a.parent.parent if a.parent else None]
Ups(p) == <<NodeScope(p), parent(p), ScopeParent(parent(p))>>

\* the texts the neighbourhood search inspects, in the order it inspects them
Candidates(doc, p) ==
    LET ups == Ups(p)
        cand(i) == find_all(doc, ups[i], {"h3", "h4", "a", "p", "span"}, FindAllLimit)
        all == Flatten([i \in 1..3 |-> cand(i)])
    IN  [j \in 1..Len(all) |-> TextAt(doc, all[j])]

\* one inspected text: set title and date_str when still unset; the breaks of
\* the two loops leave (title, date_str) alone once both are set
SearchStep(st, t) ==
    IF st.title # <<>> /\ st.date # "" THEN st
    ELSE [title |-> IF st.title = <<>> /\ (\E m \in TitleMarkers : Contains(t, m))
                    THEN t ELSE st.title,
          date  |-> IF st.date = "" THEN DateSearch(t) ELSE st.date]

RECURSIVE Search(_, _)
Search(st, ts) == IF ts = <<>> THEN st ELSE Search(SearchStep(st, Head(ts)), Tail(ts))

\* if not date_str: the date of near_text(a)
DateFallback(doc, p, date) == IF date = "" THEN DateSearch(near_text(doc, p)) ELSE date

\* if not title: the first h3/h4 of the document with "baogao" in its text
RECURSIVE FirstReportHeading(_, _)
FirstReportHeading(doc, hs) ==
    IF hs = <<>> THEN <<>>
    ELSE IF Contains(TextAt(doc, Head(hs)), "baogao") THEN TextAt(doc, Head(hs))
    ELSE FirstReportHeading(doc, Tail(hs))

TitleFallback(doc, title) ==
    IF title = <<>> THEN FirstReportHeading(doc, find_all(doc, BodyScope, {"h3", "h4"}, 0))
    ELSE title

\* the title left unset when nothing was found
AnchorItem_NoSentinel(doc, base_url, p) ==
    LET st == Search([title |-> <<>>, date |-> ""], Candidates(doc, p))
    IN  Item(TitleFallback(doc, st.title),
             DateFallback(doc, p, st.date),
             urljoin(base_url, NodeAt(doc, p).href))

\* the item built for candidate anchor p, whose href attribute is present
AnchorItem(doc, base_url, p) ==
    LET st    == Search([title |-> <<>>, date |-> ""], Candidates(doc, p))
        date  == DateFallback(doc, p, st.date)
        title == TitleFallback(doc, st.title)
    IN  Item(IF title = <<>> THEN UnrecognizedTitle ELSE title,
             date,
             urljoin(base_url, NodeAt(doc, p).href))

Hrefs(items) == {items[i].href : i \in 1..Len(items)}

\* if href in seen: continue
AlreadySeen(href, seen) == href \in seen

\* the loop over the candidate anchors (lines 52-88)
RECURSIVE AnchorPass(_, _, _, _, _)
AnchorPass(doc, base_url, as, items, seen) ==
    IF as = <<>> THEN items
    ELSE LET a == Head(as)
             raw == NodeAt(doc, a).href
         IN  IF raw = NoHref
             THEN AnchorPass(doc, base_url, Tail(as), items, seen)
             ELSE LET it == AnchorItem(doc, base_url, a)
                  IN  IF AlreadySeen(it.href, seen)
                      THEN AnchorPass(doc, base_url, Tail(as), items, seen)
                      ELSE AnchorPass(doc, base_url, Tail(as),
                                      Append(items, it), seen \cup {it.href})

\* h.find("a") for a heading, h itself for an anchor: <<>> when there is none
OwnAnchor(doc, h) ==
    IF NodeAt(doc, h).name = "a" THEN <<h>>
    ELSE Take(find_all(doc, NodeScope(h), {"a"}, 0), 1)

FallbackItem(doc, base_url, h) ==
    LET t == TextAt(doc, h)
        a == OwnAnchor(doc, h)
        href == IF a # <<>> /\ NodeAt(doc, a[1]).href # NoHref
                THEN urljoin(base_url, NodeAt(doc, a[1]).href)
                ELSE base_url
    IN  Item(t, DateSearch(t), href)

\* the document-wide fallback (lines 90-96)
FallbackPass(doc, base_url) ==
    LET hs == SelectSeq(find_all(doc, BodyScope, {"h3", "h4", "a"}, 0),
                        LAMBDA h : Contains(TextAt(doc, h), "baogao"))
    IN  [i \in 1..Len(hs) |-> FallbackItem(doc, base_url, hs[i])]

\* a cap that lets one item too many through
Slice_OneMore(items, n) ==
    SubSeq(items, 1, IF n + 1 < Len(items) THEN n + 1 ELSE Len(items))

\* items[:n], n of either sign
Slice(items, n) ==
    LET len == Len(items)
        stop == IF n >= 0 THEN (IF n < len THEN n ELSE len)
                ELSE (IF len + n > 0 THEN len + n ELSE 0)
    IN  SubSeq(items, 1, stop)

\* the fallback scan run whatever the anchor pass found
AllItems_AlwaysFallback(doc, base_url) ==
    AnchorPass(doc, base_url, anchors(doc), <<>>, {}) \o FallbackPass(doc, base_url)

\* the items before the cap (lines 50-96)
AllItems(doc, base_url) ==
    LET items == AnchorPass(doc, base_url, anchors(doc), <<>>, {})
    IN  IF items = <<>> THEN FallbackPass(doc, base_url) ELSE items

extract_items(html, base_url, top_n) == Slice(AllItems(html, base_url), top_n)

(***************************************************************************)
(* main(): one run is StartRun, the fetch attempts, Decide, and then       *)
(* Notify and SaveState as the branch taken requires.  The external        *)
(* scheduler starts the next run when the previous one has ended.          *)
(***************************************************************************)
VARIABLES
    state_file,    \* data/state.json: NoFile or [seen_hrefs |-> sequence]
    pc,            \* "idle" between runs, else the step the run is at
    top_n,         \* int(os.getenv("TOP_N", "20"))
    force_notify,  \* FORCE_NOTIFY in {"1", "true", "yes"}
    webhook,       \* FEISHU_WEBHOOK_URL is set, as this run's notify_feishu read it
    state,         \* the dict load_state returned, as main updates it
    attempts,      \* calls of fetch_html made by the retry wrapper
    html,          \* the fetched document, until it is parsed
    items,         \* extract_items(html, BASE_URL, top_n)
    targets,       \* the list handed to notify_feishu: new_items or items[:1]
    branch,        \* the branch Decide took: "init", "force", "none_new", "steady"
    outcome,       \* "running", then how the run ended (status line or failure)
    run,           \* number of runs started
    nfCalls,       \* history: per href, the non-forced runs that gave it to notify_feishu
    commits,       \* history: per href, those of them that went on to save the state
    initSeen,      \* history: the hrefs persisted by a first-run initialization
    notified,      \* history: what this run's notify_feishu call did, "no" if not called
    saved,         \* history: this run called save_state
    file0,         \* history: state_file when the current run started
    extracted,     \* history: the hrefs extract_items returned in non-forced runs
    xdoc, xbase, xtopn, xitems, xfull, xpc,  \* the extraction harness
    xseen, xnew    \* the diff harness: a seen set and the new_items computed from it

runVars == <<state_file, pc, top_n, force_notify, webhook, state, attempts, html, items,
             targets, branch, outcome, run, nfCalls, commits, initSeen, notified,
             saved, file0, extracted>>
xVars == <<xdoc, xbase, xtopn, xitems, xfull, xpc, xseen, xnew>>
vars == <<runVars, xVars>>

NoFile == [exists |-> FALSE]

Range(s) == {s[i] : i \in 1..Len(s)}

\* load_state(): the file's content, {"seen_hrefs": []} when there is no file
load_state(file) == IF file = NoFile THEN [seen_hrefs |-> <<>>] ELSE file

\* seen = set(state.get("seen_hrefs", []))
SeenOf(st) == Range(st.seen_hrefs)

\* the membership test inverted: the items already seen are taken as new
NewItems_Inverted(its, seen) == SelectSeq(its, LAMBDA it : it.href \in seen)

\* the diff left out: every extracted item counts as new
NewItems_All(its, seen) == its

\* new_items = [it for it in items if it["href"] not in seen]
NewItems(its, seen) == SelectSeq(its, LAMBDA it : it.href \notin seen)

\* only the first extracted href kept
HrefList_FirstOnly(its) == IF its = <<>> THEN <<>> ELSE <<its[1].href>>

\* [it["href"] for it in items]
HrefList(its) == [i \in 1..Len(its) |-> its[i].href]

\* list(s): the elements of a set in some order
Orders(S) == {q \in [1..Cardinality(S) -> S] : Range(q) = S}

\* the new hrefs replace the seen set instead of joining it
SeenUnion_OnlyNew(seen, new_items) == {new_items[i].href : i \in 1..Len(new_items)}

\* the new hrefs are not added
SeenUnion_OnlySeen(seen, new_items) == seen

\* seen.union([it["href"] for it in new_items])
SeenUnion(seen, new_items) == seen \cup Hrefs(new_items)

\* no first-run branch at all
IsFirstRun_Never(seen, its, force) == FALSE

\* the first-run branch taken by forced runs too
IsFirstRun_IgnoresForce(seen, its, force) == seen = {} /\ its # <<>>

\* the first-run branch taken on an empty extraction too
IsFirstRun_AnyExtraction(seen, its, force) == seen = {} /\ ~force

\* the forced run notifying everything extracted
ForceTargets_All(its) == its

\* targets = items[:1] if items else []
ForceTargets(its) == IF its # <<>> THEN Slice(its, 1) ELSE <<>>

\* the condition of the first-run branch (line 129)
IsFirstRun(seen, its, force) == seen = {} /\ its # <<>> /\ ~force

\* the pages the listing URL serves in the runs, and the caps configured
RunRowShapes == {RowA, RowB, RowH}
RunDocs == SeqsUpTo(RunRowShapes, MaxRows)
RunTopNs == {1, DefaultTopN}
RunHrefs == UNION {Hrefs(AllItems(d, BASE_URL)) : d \in RunDocs}

RunInit ==
    /\ state_file = NoFile
    /\ pc = "idle"
    /\ top_n = DefaultTopN
    /\ force_notify = FALSE
    /\ webhook = FALSE
    /\ state = [seen_hrefs |-> <<>>]
    /\ attempts = 0
    /\ html = <<>>
    /\ items = <<>>
    /\ targets = <<>>
    /\ outcome = "none"
    /\ branch = "undecided"
    /\ run = 0
    /\ nfCalls = [h \in RunHrefs |-> 0]
    /\ commits = [h \in RunHrefs |-> 0]
    /\ initSeen = {}
    /\ notified = "no"
    /\ saved = FALSE
    /\ file0 = NoFile
    /\ extracted = {}

XIdle ==
    /\ xdoc = <<>>
    /\ xbase = BASE_URL
    /\ xtopn = 0
    /\ xitems = <<>>
    /\ xfull = <<>>
    /\ xpc = "off"
    /\ xseen = {}
    /\ xnew = <<>>

Init == RunInit /\ XIdle

\* lines 121-123: the configuration is read and the state loaded
StartRun(n, force) ==
    /\ pc = "idle"
    /\ run < MaxRuns
    /\ run' = run + 1
    /\ top_n' = n
    /\ force_notify' = force
    /\ webhook' = FALSE
    /\ state' = load_state(state_file)
    /\ file0' = state_file
    /\ attempts' = 0
    /\ html' = <<>>
    /\ items' = <<>>
    /\ targets' = <<>>
    /\ notified' = "no"
    /\ branch' = "undecided"
    /\ saved' = FALSE
    /\ outcome' = "running"
    /\ pc' = "fetch"
    /\ UNCHANGED <<state_file, nfCalls, commits, initSeen, extracted, xVars>>

\* one call of fetch_html that returns the document
FetchOk(doc) ==
    /\ pc = "fetch"
    /\ attempts' = attempts + 1
    /\ html' = doc
    /\ pc' = "extract"
    /\ UNCHANGED <<state_file, top_n, force_notify, webhook, state, items, targets, branch,
                   outcome, run, nfCalls, commits, initSeen, notified, saved, file0, extracted, xVars>>

\* one attempt more than the ceiling
GivesUp_OneMore(n) == n > FetchAttempts

\* stop=stop_after_attempt(3): the failure propagates from the last attempt
GivesUp(n) == n >= FetchAttempts

\* one call of fetch_html that raises
FetchFail ==
    /\ pc = "fetch"
    /\ attempts' = attempts + 1
    /\ IF GivesUp(attempts + 1)
       THEN pc' = "idle" /\ outcome' = "fetch_failed"
       ELSE pc' = "fetch" /\ outcome' = outcome
    /\ UNCHANGED <<state_file, top_n, force_notify, webhook, state, html, items, targets,
                   branch, run, nfCalls, commits, initSeen, notified, saved, file0, extracted, xVars>>

\* lines 125-149: extraction, diff and the choice of the branch
Decide ==
    /\ pc = "extract"
    /\ LET its  == extract_items(html, BASE_URL, top_n)
           seen == SeenOf(state)
           new_items == NewItems(its, seen)
       IN  /\ items' = its
           /\ extracted' = IF force_notify THEN extracted ELSE extracted \cup Hrefs(its)
           /\ html' = <<>>
           /\ attempts' = 0
           /\ IF IsFirstRun(seen, its, force_notify)
              THEN /\ branch' = "init"
                   /\ state' = [state EXCEPT !.seen_hrefs = HrefList(its)]
                   /\ targets' = <<>>
                   /\ pc' = "save"
                   /\ outcome' = outcome
              ELSE IF force_notify
              THEN /\ branch' = "force"
                   /\ state' = state
                   /\ targets' = ForceTargets(its)
                   /\ IF its # <<>>
                      THEN pc' = "notify" /\ outcome' = outcome
                      ELSE pc' = "idle" /\ outcome' = "no_items_for_force"
              ELSE IF new_items = <<>>
              THEN /\ branch' = "none_new"
                   /\ state' = state
                   /\ targets' = <<>>
                   /\ pc' = "idle"
                   /\ outcome' = "no_new_items"
              ELSE /\ branch' = "steady"
                   /\ state' = state
                   /\ targets' = new_items
                   /\ pc' = "notify"
                   /\ outcome' = outcome
    /\ UNCHANGED <<state_file, top_n, force_notify, webhook, run, nfCalls, commits,
                   initSeen, notified, saved, file0, xVars>>

Bump(f, S) == [h \in DOMAIN f |-> IF h \in S THEN f[h] + 1 ELSE f[h]]

\* the early return left out: the post is attempted without an endpoint
notify_feishu_NoGuard(hook, delivered) == IF hook /\ delivered THEN "sent" ELSE "raised"

\* notify_feishu(items): returns at once when FEISHU_WEBHOOK_URL is unset
\* (hook = FALSE), else posts; delivered = the post and raise_for_status succeed
notify_feishu(hook, delivered) ==
    IF ~hook THEN "noop" ELSE IF delivered THEN "sent" ELSE "raised"

\* the state written in the notification step, before save_state is reached
Notify_WritesAtOnce(hook, delivered) ==
    /\ pc = "notify"
    /\ webhook' = hook
    /\ notified' = notify_feishu(hook, delivered)
    /\ IF force_notify
       THEN /\ pc' = "idle"
            /\ state_file' = state_file
            /\ outcome' = "forced"
            /\ state' = state
            /\ nfCalls' = nfCalls
       ELSE /\ pc' = "save"
            /\ outcome' = outcome
            /\ \E order \in Orders(SeenUnion(SeenOf(state), targets)) :
                  state' = [state EXCEPT !.seen_hrefs = order]
            /\ state_file' = state'
            /\ nfCalls' = Bump(nfCalls, Hrefs(targets))
    /\ UNCHANGED <<top_n, force_notify, attempts, html, items,
                   targets, branch, run, commits, initSeen, saved, file0, extracted, xVars>>

\* lines 138-145 and 151-156: notify_feishu(targets) inside try/except, then
\* the forced run ends and the steady-state run updates state["seen_hrefs"]
Notify(hook, delivered) ==
    /\ pc = "notify"
    /\ webhook' = hook
    /\ notified' = notify_feishu(hook, delivered)
    /\ IF force_notify
       THEN /\ pc' = "idle"
            /\ outcome' = "forced"
            /\ state' = state
            /\ nfCalls' = nfCalls
       ELSE /\ pc' = "save"
            /\ outcome' = outcome
            /\ \E order \in Orders(SeenUnion(SeenOf(state), targets)) :
                  state' = [state EXCEPT !.seen_hrefs = order]
            /\ nfCalls' = Bump(nfCalls, Hrefs(targets))
    /\ UNCHANGED <<state_file, top_n, force_notify, attempts, html, items,
                   targets, branch, run, commits, initSeen, saved, file0, extracted, xVars>>

\* save_state(state): the file is replaced, or the write raises and the file
\* is as it was (open fails); a write interrupted inside json.dump is not modelled
SaveState(ok) ==
    /\ pc = "save"
    /\ saved' = TRUE
    /\ pc' = "idle"
    /\ IF ok
       THEN /\ state_file' = state
            /\ outcome' = IF branch = "init" THEN "initialized" ELSE "notified"
            /\ commits' = Bump(commits, Hrefs(targets))
            /\ initSeen' = IF branch = "init"
                           THEN initSeen \cup SeenOf(state) ELSE initSeen
       ELSE /\ state_file' = state_file
            /\ outcome' = "save_failed"
            /\ UNCHANGED <<commits, initSeen>>
    /\ UNCHANGED <<top_n, force_notify, webhook, state, attempts, html, items, targets,
                   branch, run, nfCalls, notified, file0, extracted, xVars>>

\* the process is terminated between two steps
Kill ==
    /\ pc # "idle"
    /\ pc' = "idle"
    /\ outcome' = "killed"
    /\ UNCHANGED <<state_file, top_n, force_notify, webhook, state, attempts, html, items,
                   targets, branch, run, nfCalls, commits, initSeen, notified,
                   saved, file0, extracted, xVars>>

Next ==
    \/ \E n \in RunTopNs, force \in BOOLEAN : StartRun(n, force)
    \/ \E doc \in RunDocs : FetchOk(doc)
    \/ FetchFail
    \/ Decide
    \/ \E hook \in BOOLEAN, delivered \in BOOLEAN : Notify(hook, delivered)
    \/ \E ok \in BOOLEAN : SaveState(ok)
    \/ Kill

Spec == Init /\ [][Next]_vars

(***************************************************************************)
(* Properties of the runs (checked under Spec).                            *)
(***************************************************************************)
Persisted  == SeenOf(load_state(state_file))
Persisted0 == SeenOf(load_state(file0))

\* the run ended by one of main's return paths of a non-forced run
CompletedNonForced == pc = "idle" /\ outcome \in {"initialized", "notified", "no_new_items"}

C2_AtMostOnce == \A h \in DOMAIN nfCalls : nfCalls[h] <= 1

\* C3: a non-forced run that loaded an empty seen set and extracted at least
\* one item never calls notify_feishu, goes straight to save_state with
\* seen_hrefs = the hrefs of all extracted items, and ends there: when
\* save_state returns, the file holds exactly those hrefs.
C3_FirstRunSuppression ==
    (~force_notify /\ Persisted0 = {} /\ items # <<>>) =>
        /\ branch = "init"
        /\ notified = "no"
        /\ targets = <<>>
        /\ pc \in {"save", "idle"}
        /\ state.seen_hrefs = HrefList(items)
        /\ pc = "idle" => outcome \in {"initialized", "save_failed", "killed"}
        /\ outcome = "initialized" => state_file = [seen_hrefs |-> HrefList(items)]

C3_Witness ==
    /\ outcome = "initialized"
    /\ Len(items) = 2
    /\ file0 = NoFile
    /\ state_file = [seen_hrefs |-> HrefList(items)]

\* C4: a run with force-notify on never calls save_state and leaves the state
\* file as it found it, whatever was persisted, extracted or delivered.
C4_ForceNotifyIsolation ==
    (force_notify /\ run > 0) =>
        /\ state_file = file0
        /\ ~saved
        /\ pc # "save"
        /\ state = load_state(file0)

C4_Witness ==
    /\ force_notify
    /\ outcome = "forced"
    /\ notified = "raised"
    /\ file0 # NoFile
    /\ Hrefs(targets) \cap Persisted0 = {}

C6_PersistsWhateverNotifyDid ==
    (~force_notify /\ Persisted0 # {} /\ notified # "no") =>
        /\ branch = "steady"
        /\ targets = NewItems(items, Persisted0)
        /\ targets # <<>>
        /\ pc \in {"save", "idle"}
        /\ SeenOf(state) = Persisted0 \cup Hrefs(targets)
        /\ pc = "idle" => outcome \in {"notified", "save_failed", "killed"}
        /\ outcome = "notified" => Persisted = Persisted0 \cup Hrefs(targets)

C6_Witness ==
    /\ ~force_notify
    /\ notified = "raised"
    /\ outcome = "notified"
    /\ Persisted = Persisted0 \cup Hrefs(targets)
    /\ Persisted # Persisted0

\* C7: fetch_html is called at most 3 times in a run; when all of them fail the
\* run ends before extraction, with nothing notified and nothing saved; and
\* notify_feishu and save_state are each called at most once in a run.
C7_FetchFailureAborts ==
    /\ attempts <= FetchAttempts
    /\ outcome = "fetch_failed" =>
          /\ attempts = FetchAttempts
          /\ pc = "idle"
          /\ branch = "undecided"
          /\ items = <<>>
          /\ notified = "no"
          /\ ~saved
          /\ state_file = file0
    /\ pc = "notify" => notified = "no"
    /\ pc = "save" => ~saved

C7_Witness ==
    /\ outcome = "fetch_failed"
    /\ attempts = FetchAttempts
    /\ state_file # NoFile

\* C8: a non-forced run in which every extracted href is already in the loaded
\* seen set -- an empty extraction included, whatever was loaded -- calls
\* neither notify_feishu nor save_state and leaves the state file alone.
C8_NoNewItemsSilent ==
    (~force_notify /\ branch # "undecided" /\ Hrefs(items) \subseteq Persisted0) =>
        /\ branch = "none_new"
        /\ outcome = "no_new_items"
        /\ pc = "idle"
        /\ notified = "no"
        /\ ~saved
        /\ state_file = file0
        /\ state = load_state(file0)

C8_Witness ==
    /\ ~force_notify
    /\ outcome = "no_new_items"
    /\ items = <<>>
    /\ file0 = NoFile
    /\ state_file = NoFile

\* C12: a run with force-notify on calls notify_feishu at most once, with
\* exactly the first extracted item, seen or not, and not at all when nothing
\* was extracted.
C12_ForceNotifiesFirstItemOnly ==
    (force_notify /\ branch # "undecided") =>
        /\ branch = "force"
        /\ targets = (IF items = <<>> THEN <<>> ELSE <<items[1]>>)
        /\ items = <<>> =>
              notified = "no" /\ pc = "idle" /\ outcome = "no_items_for_force"
        /\ items # <<>> => pc \in {"notify", "idle"}
        /\ pc = "notify" => notified = "no"
        /\ notified # "no" => pc = "idle" /\ outcome = "forced"

C12_Witness ==
    /\ force_notify
    /\ outcome = "forced"
    /\ Len(items) = 2
    /\ targets = <<items[1]>>
    /\ items[1].href \in Persisted0
    /\ items[2].href \notin Persisted0

\* C13: when no webhook endpoint is configured, notify_feishu returns without
\* posting and without raising, whatever list it was given, and the run
\* carries on as after a delivery.
C13_NoWebhookNoOp ==
    (notified # "no" /\ ~webhook) =>
        /\ notified = "noop"
        /\ targets # <<>>
        /\ force_notify => pc = "idle" /\ outcome = "forced"
        /\ ~force_notify => pc \in {"save", "idle"}

C13_Witness ==
    /\ notified = "noop"
    /\ ~webhook
    /\ ~force_notify
    /\ Len(targets) = 2
    /\ outcome = "notified"

\* C14: a run loads the state once, before the fetch, and writes the file at
\* most once, as its last step: nothing is written before save_state, in a
\* steady-state run save_state comes after notify_feishu returned or raised,
\* and a run that failed or was killed before the write leaves the file as loaded.
C14_ReadOnceWriteLast ==
    /\ pc = "fetch" => state = load_state(state_file) /\ state_file = file0
    /\ pc \in {"fetch", "extract", "notify", "save"} => state_file = file0 /\ ~saved
    /\ saved => pc = "idle" /\ outcome \in {"initialized", "notified", "save_failed"}
    /\ (pc = "save" \/ saved) =>
          \/ branch = "init" /\ notified = "no"
          \/ branch = "steady" /\ notified # "no"
    /\ state_file # file0 => saved /\ outcome \in {"initialized", "notified"}
    /\ outcome \in {"killed", "fetch_failed", "save_failed"} => state_file = file0

C14_Witness ==
    /\ outcome = "killed"
    /\ branch = "steady"
    /\ notified = "raised"
    /\ ~saved
    /\ state_file = file0
    /\ state # load_state(file0)

\* C17: after a non-forced run that returned normally (initialized, no new
\* items, or notified with or without a notification failure), the persisted
\* seen_hrefs holds the href of every item the run extracted.
C17_ExtractedArePersisted ==
    (~force_notify /\ pc = "idle"
        /\ outcome \in {"initialized", "no_new_items", "notified"} /\ items # <<>>) =>
        \A i \in 1..Len(items) : items[i].href \in SeenOf(load_state(state_file))

C17_Witness ==
    /\ ~force_notify
    /\ pc = "idle"
    /\ outcome = "notified"
    /\ notified = "raised"
    /\ Len(items) = 2
    /\ Len(targets) = 1
    /\ Hrefs(items) \subseteq Persisted

\* C18: the persisted seen_hrefs holds only hrefs that extract_items returned,
\* within the cap, in a non-forced run: nothing enters it from a forced run,
\* from a run whose fetch failed, or from items beyond the cap.
C18_PersistedWereExtracted ==
    /\ SeenOf(load_state(state_file)) \subseteq extracted
    /\ state_file # file0 => ~force_notify /\ Hrefs(items) \subseteq extracted
    /\ state_file # file0 => SeenOf(load_state(state_file)) \subseteq Persisted0 \cup Hrefs(items)

C18_Witness ==
    /\ force_notify
    /\ outcome = "forced"
    /\ Persisted # {}
    /\ items[1].href \notin extracted
    /\ items[1].href \notin Persisted

(***************************************************************************)
(* The extraction harness: extract_items applied to every document, base   *)
(* URL and cap of the bounded sets.                                        *)
(***************************************************************************)
OtherBase == [host |-> "example.org", path |-> <<"list.html">>]
Bases == {BASE_URL, OtherBase}
TopNs == (-1 .. MaxTopN) \cup {DefaultTopN}

XInit ==
    /\ RunInit
    /\ xdoc \in Docs
    /\ xbase \in Bases
    /\ xtopn \in TopNs
    /\ xitems = <<>>
    /\ xfull = <<>>
    /\ xpc = "ready"
    /\ xseen = {}
    /\ xnew = <<>>

\* xitems: the value returned; xfull: the list `items` of line 97 before the cap
XExtract ==
    /\ xpc = "ready"
    /\ xitems' = extract_items(xdoc, xbase, xtopn)
    /\ xfull' = AllItems(xdoc, xbase)
    /\ xpc' = "done"
    /\ UNCHANGED <<xdoc, xbase, xtopn, xseen, xnew, runVars>>

XNext == XExtract

SpecExtract == XInit /\ [][XNext]_vars

(***************************************************************************)
(* Properties of extract_items (checked under SpecExtract).                *)
(***************************************************************************)
\* C9 as stated: the list extract_items returns holds no two items with the
\* same href.
C9_HrefsUnique ==
    xpc = "done" =>
        \A i, j \in 1..Len(xitems) : i # j => xitems[i].href # xitems[j].href

\* the anchors the anchor pass makes items of: download marker in the text
\* and an href attribute
DownloadAnchors(doc) ==
    {p \in Range(DocPos(doc)) :
        /\ NodeAt(doc, p).name = "a"
        /\ Contains(TextAt(doc, p), "xiazai")
        /\ NodeAt(doc, p).href # NoHref}

\* the elements the document-wide fallback makes items of
ReportNodes(doc) ==
    {p \in Range(DocPos(doc)) :
        /\ NodeAt(doc, p).name \in {"h3", "h4", "a"}
        /\ Contains(TextAt(doc, p), "baogao")}

\* C15: when the document has a download anchor with an href, the items are
\* those of the anchor pass alone, one per resolved href; the document-wide
\* fallback contributes items if and only if there is no such anchor, and then
\* one item per heading or anchor carrying the report marker.
C15_LayeredFallback ==
    xpc = "done" =>
        LET da == DownloadAnchors(xdoc)
            anchorHrefs == {urljoin(xbase, NodeAt(xdoc, p).href) : p \in da}
        IN  /\ da # {} =>
                  /\ Hrefs(xfull) = anchorHrefs
                  /\ Len(xfull) = Cardinality(anchorHrefs)
            /\ da = {} =>
                  /\ Len(xfull) = Cardinality(ReportNodes(xdoc))
                  /\ \A i \in 1..Len(xfull) : Contains(xfull[i].title, "baogao")

C15_Witness ==
    /\ xpc = "done"
    /\ xdoc = <<RowC>>
    /\ xtopn = DefaultTopN
    /\ Len(xitems) = 1
    /\ xitems[1].href = urljoin(xbase, HrefX)
    /\ DownloadAnchors(xdoc) = {}

\* C16: every item of either pass has a non-empty, normalized title -- a text
\* with one of the title markers, or the unrecognized-title sentinel -- a date
\* that is empty or a match of the date pattern, and a non-empty URL as href.
C16_FieldsPopulated ==
    xpc = "done" =>
        \A i \in 1..Len(xfull) :
            LET it == xfull[i]
            IN  /\ DOMAIN it = {"title", "date", "href"}
                /\ it.title # <<>>
                /\ norm_text(it.title) = it.title
                /\ \/ it.title = UnrecognizedTitle
                   \/ \E m \in TitleMarkers : Contains(it.title, m)
                /\ it.date \in DateWords \cup {""}
                /\ it.href.host # ""
                /\ it.href.path # <<>>

C16_Witness ==
    /\ xpc = "done"
    /\ \E i \in 1..Len(xitems) :
          /\ xitems[i].title = UnrecognizedTitle
          /\ xitems[i].date = "2023-04-28"
          /\ xitems[i].href = urljoin(xbase, HrefAAbs)

\* C10: for a cap N >= 0, extract_items returns at most N items, and they are
\* the first N (all, when there are fewer) of the list before the cap.
C10_CapRespected ==
    (xpc = "done" /\ xtopn >= 0) =>
        /\ Len(xitems) <= xtopn
        /\ Len(xitems) = (IF xtopn < Len(xfull) THEN xtopn ELSE Len(xfull))
        /\ \A i \in 1..Len(xitems) : xitems[i] = xfull[i]

C10_Witness ==
    /\ xpc = "done"
    /\ xtopn >= 1
    /\ Len(xfull) > xtopn
    /\ Len(xitems) = xtopn

(***************************************************************************)
(* The diff harness: lines 125-127 of main applied to every document and   *)
(* every seen set over the document's hrefs and two further hrefs.         *)
(***************************************************************************)
SeenSets(doc) ==
    SUBSET (Hrefs(AllItems(doc, BASE_URL)) \cup {BASE_URL, urljoin(BASE_URL, HrefB)})

DInit ==
    /\ RunInit
    /\ xdoc \in Docs
    /\ xbase = BASE_URL
    /\ xtopn = DefaultTopN
    /\ xitems = <<>>
    /\ xfull = <<>>
    /\ xpc = "ready"
    /\ xseen \in SeenSets(xdoc)
    /\ xnew = <<>>

XDiff ==
    /\ xpc = "ready"
    /\ LET its == extract_items(xdoc, xbase, xtopn)
       IN  /\ xitems' = its
           /\ xnew' = NewItems(its, xseen)
    /\ xpc' = "diffed"
    /\ UNCHANGED <<xdoc, xbase, xtopn, xfull, xseen, runVars>>

DNext == XDiff

SpecDiff == DInit /\ [][DNext]_vars

(***************************************************************************)
(* Properties of the diff (checked under SpecDiff).                        *)
(***************************************************************************)
\* the indices of the items of its whose href is not in seen
NewIndices(its, seen) == {i \in 1..Len(its) : its[i].href \notin seen}

\* the k-th smallest element of a set of numbers
Nth(S, k) == CHOOSE i \in S : Cardinality({j \in S : j <= i}) = k

\* C11: new_items are exactly the items whose href is not in the seen set, in
\* the order of the item list; with the items whose href is in the seen set
\* they account for every item once.
C11_DiffCorrect ==
    xpc = "diffed" =>
        LET new  == NewIndices(xitems, xseen)
            old  == {i \in 1..Len(xitems) : xitems[i].href \in xseen}
        IN  /\ Len(xnew) = Cardinality(new)
            /\ \A k \in 1..Len(xnew) : xnew[k] = xitems[Nth(new, k)]
            /\ \A k \in 1..Len(xnew) : xnew[k].href \notin xseen
            /\ Len(xnew) + Cardinality(old) = Len(xitems)

C11_Witness ==
    /\ xpc = "diffed"
    /\ Len(xitems) >= 2
    /\ xnew # <<>>
    /\ Len(xnew) < Len(xitems)
    /\ xnew[1] = xitems[2]

====
